---------------------------- MODULE Spec2Model ----------------------------
(***************************************************************************)
(* A model of bot.py: the duplicate-video bot.                             *)
(*                                                                         *)
(* State: the two sqlite tables (videos, report_messages), the two         *)
(* process-wide cooldown dictionaries (last_report_usage,                  *)
(* last_delete_usage), the wall clock, and for every update-processing     *)
(* thread its position (pc) and its local variables (loc).                 *)
(*                                                                         *)
(* webhook() starts one thread per update, so handlers of different        *)
(* updates interleave.  One sqlite statement batch that ends in commit()   *)
(* is one atomic step; one call of the messaging surface (reply_text,      *)
(* send_video, delete_message, get_member) is one step whose outcome the   *)
(* environment chooses; a read or a write of a cooldown dictionary is one  *)
(* step.                                                                   *)
(***************************************************************************)
EXTENDS Integers, Sequences, FiniteSets, TLC

(* ------------------------------ bounds -------------------------------- *)
NumProcs == 2
NumChats == 2
MaxUid == 2
MaxMid == 2
MaxFid == 1
MaxRows == 4
MaxSent == 4
MaxClock == 120

(* ------------------------- program constants --------------------------- *)
MAX_REPORT_VIDEOS == 10
REPORT_COOLDOWN == 30
DELETE_COOLDOWN == 60

(* The clock counts half seconds: datetime.now().timestamp() is a float,   *)
(* and the half second is the resolution the model keeps of it.            *)
TicksPerSecond == 2

Procs == 1..NumProcs
Chats == 1..NumChats
Uids == 1..MaxUid
Mids == 1..MaxMid
Fids == 1..MaxFid

ReportWindow == REPORT_COOLDOWN * TicksPerSecond
DeleteWindow == DELETE_COOLDOWN * TicksPerSecond

(* The instants at which the clock is observed: around the multiples of    *)
(* the shorter cooldown window.                                            *)
TimePoints ==
  {t \in 0..MaxClock : (t % ReportWindow) \in {0, ReportWindow - 1}}

(* The instants a long pause ends at: the multiples of the longer window.  *)
Commands == {"report", "delete"}

(* "chat_id in last_report_usage" is false: the dictionary has no entry.   *)
NoEntry == -1

VARIABLES
  videos,             \* table videos: rows [uid, fid, count, first_seen, chat, mid]
  report_messages,    \* table report_messages: rows [chat, mid, type]
  last_report_usage,  \* dict chat_id -> timestamp of the last allowed /report
  last_delete_usage,  \* dict chat_id -> timestamp of the last allowed /delete_duplicates
  clock,              \* datetime.now()
  next_message_id,    \* the message_id the messaging surface gives the next sent message
  pc,                 \* per thread: the handler statement it is at
  loc,                \* per thread: the handler's local variables
  redelivered,        \* history: the last media event found its (file_unique_id, message_id) row stored
  allowed_at,         \* history: per command and chat, the time of the latest allowed invocation
  ever_recorded       \* history: the content keys that have had a row stored

vars == <<videos, report_messages, last_report_usage, last_delete_usage, clock,
          next_message_id, pc, loc, redelivered, allowed_at, ever_recorded>>

(* ------------------------------ helpers -------------------------------- *)
Range(s) == {s[i] : i \in DOMAIN s}

Key(r) == <<r.uid, r.mid>>

(* Lexicographic order on (file_unique_id, message_id).                    *)
KeyLess(a, b) == a.uid < b.uid \/ (a.uid = b.uid /\ a.mid < b.mid)

(* ORDER BY file_unique_id, message_id over a set of rows.                 *)
RECURSIVE OrderByUidMid(_)
OrderByUidMid(S) ==
  IF S = {} THEN <<>>
  ELSE LET m == CHOOSE r \in S : \A o \in S : o = r \/ KeyLess(r, o)
       IN <<m>> \o OrderByUidMid(S \ {m})

(* ORDER BY message_id over a set of report rows (rowid order: the surface *)
(* numbers messages in the order they are sent).                           *)
RECURSIVE OrderByMid(_)
OrderByMid(S) ==
  IF S = {} THEN <<>>
  ELSE LET m == CHOOSE r \in S : \A o \in S : r.mid <= o.mid
       IN <<m.mid>> \o OrderByMid(S \ {m})

(* --------------------------- table videos ------------------------------ *)
(* INSERT OR IGNORE INTO videos: PRIMARY KEY(file_unique_id, message_id).  *)
InsertOrReplace(tbl, row) ==
  {r \in tbl : Key(r) # Key(row)} \cup {row}

InsertOrIgnore(tbl, row) ==
  IF \E r \in tbl : Key(r) = Key(row) THEN tbl ELSE tbl \cup {row}

(* SELECT COUNT( * ) FROM videos WHERE file_unique_id = ?                  *)
CountFor(tbl, uid) == Cardinality({r \in tbl : r.uid = uid})

(* UPDATE videos SET count = ? WHERE file_unique_id = ?                    *)
UpdateCountNewRowOnly(tbl, uid, n) ==
  {IF r.uid = uid /\ r.count = 0 THEN [r EXCEPT !.count = n] ELSE r : r \in tbl}

UpdateCount(tbl, uid, n) ==
  {IF r.uid = uid THEN [r EXCEPT !.count = n] ELSE r : r \in tbl}

(* The content keys with more than one row: GROUP BY .. HAVING COUNT > 1.  *)
DuplicatedUids(tbl) == {u \in {r.uid : r \in tbl} : CountFor(tbl, u) > 1}

(* The deletable-duplicates query of delete_duplicates.                    *)
DeletableDuplicates(tbl) ==
  OrderByUidMid({r \in tbl : r.uid \in DuplicatedUids(tbl)})

(* "if unique_id != last_unique": the row is the first of its group.       *)
IsFirstOfGroupNever(unique_id, last_unique) == FALSE

IsFirstOfGroup(unique_id, last_unique) == unique_id # last_unique

(* executemany DELETE FROM videos WHERE file_unique_id = ? AND message_id = ? *)
RemoveNoRows(tbl, keys) == tbl

RemoveAllOfUid(tbl, keys) ==
  {r \in tbl : r.uid \notin {k[1] : k \in Range(keys)}}

RemoveRows(tbl, keys) == {r \in tbl : Key(r) \notin Range(keys)}

(* ----------------------- table report_messages ------------------------- *)
(* DELETE FROM report_messages WHERE chat_id = ?                           *)
ClearAllChats(tbl, chat) == {}

ClearChat(tbl, chat) == {r \in tbl : r.chat # chat}

(* --------------------------- cooldown gate ----------------------------- *)
(* "if chat_id in usage: time_diff = current_time - usage[chat_id];        *)
(*  if time_diff < COOLDOWN: ... return"                                   *)
CooldownActiveInclusive(usage, chat, current_time, window) ==
  usage[chat] # NoEntry /\ current_time - usage[chat] <= window

CooldownActive(usage, chat, current_time, window) ==
  usage[chat] # NoEntry /\ current_time - usage[chat] < window

(* --------------------------- thread locals ----------------------------- *)
(* Besides the handlers' own locals, a thread keeps a record of what the   *)
(* run did (log, written, queried, kept, attempted, failed, removed,       *)
(* interfered, cause), which no handler reads.                             *)
NoLocals ==
  [cmd |-> "none", chat_id |-> 0, current_time |-> 0,
   time_diff |-> 0, remaining |-> 0,
   result |-> "none", cause |-> "none",
   \* report_command
   repeated |-> <<>>, i |-> 0, videos_sent |-> 0, messages_to_store |-> <<>>,
   sets_reported |-> 0, log |-> <<>>, written |-> {},
   \* delete_duplicates
   member |-> "none",
   report_msgs |-> <<>>, report_attempted |-> {}, report_deleted |-> 0, total_deleted |-> 0,
   report_failed |-> 0,
   rows |-> <<>>, last_unique |-> 0, duplicates_deleted |-> 0,
   videos_to_delete |-> <<>>, queried_done |-> FALSE,
   queried |-> {}, kept |-> {}, attempted |-> {}, failed |-> {}, removed |-> {},
   interfered |-> FALSE]

Init ==
  /\ videos = {}
  /\ report_messages = {}
  /\ last_report_usage = [c \in Chats |-> NoEntry]
  /\ last_delete_usage = [c \in Chats |-> NoEntry]
  /\ clock = 0
  /\ next_message_id = 1
  /\ pc = [p \in Procs |-> "idle"]
  /\ loc = [p \in Procs |-> NoLocals]
  /\ redelivered = FALSE
  /\ allowed_at = [c \in Commands |-> [ch \in Chats |-> NoEntry]]
  /\ ever_recorded = {}

(* ------------------------------ the clock ------------------------------ *)
Tick ==
  /\ \E t \in TimePoints : t > clock /\ clock' = t
  /\ UNCHANGED <<videos, report_messages, last_report_usage, last_delete_usage,
                 next_message_id, pc, loc, redelivered, allowed_at, ever_recorded>>

(* ---------------------------- video_handler ---------------------------- *)
(* One transaction: INSERT OR IGNORE, SELECT COUNT, UPDATE count, commit.  *)
(* A failing statement raises before commit(): the connection is closed    *)
(* and nothing is written, which leaves every variable as it was.          *)
VideoHandler(unique_id, file_id, chat_id, message_id) ==
  LET row == [uid |-> unique_id, fid |-> file_id, count |-> 0,
              first_seen |-> clock, chat |-> chat_id, mid |-> message_id]
      inserted == InsertOrIgnore(videos, row)
      total_for_file == CountFor(inserted, unique_id)
  IN /\ Cardinality(inserted) <= MaxRows
     /\ videos' = UpdateCount(inserted, unique_id, total_for_file)
     /\ ever_recorded' = ever_recorded \cup {unique_id}
     /\ redelivered' = (\E r \in videos : Key(r) = Key(row))
     /\ UNCHANGED <<report_messages, last_report_usage, last_delete_usage, clock,
                    next_message_id, pc, loc, allowed_at>>

video_handler ==
  \E unique_id \in Uids, file_id \in Fids, chat_id \in Chats, message_id \in Mids :
    VideoHandler(unique_id, file_id, chat_id, message_id)

(* ------------------------ the cooldown gate ---------------------------- *)
(* Both commands open with the same three statements: read the clock       *)
(* (current_time), test the dictionary entry, write the dictionary entry.  *)
(* The threads of two updates share the dictionaries without a lock, so    *)
(* the statements of two invocations interleave.                           *)

(* webhook() starts a thread for the update: the model gives it the lowest *)
(* free thread slot.  The handler then opens with                          *)
(* "chat_id = update.effective_chat.id; current_time = datetime.now().timestamp()" *)
Start(p, cmd, chat) ==
  /\ pc[p] = "idle"
  /\ \A q \in Procs : q < p => pc[q] # "idle"
  /\ loc' = [loc EXCEPT ![p] = [NoLocals EXCEPT !.cmd = cmd, !.chat_id = chat,
                                                !.current_time = clock]]
  /\ pc' = [pc EXCEPT ![p] = "check"]
  /\ UNCHANGED <<videos, report_messages, last_report_usage, last_delete_usage,
                 clock, next_message_id, redelivered, allowed_at, ever_recorded>>

report_command_start ==
  \E p \in Procs, chat \in Chats :
    next_message_id <= MaxSent /\ Start(p, "report", chat)

delete_duplicates_start == \E p \in Procs, chat \in Chats : Start(p, "delete", chat)

UsageOf(cmd) == IF cmd = "report" THEN last_report_usage ELSE last_delete_usage

WindowOf(cmd) == IF cmd = "report" THEN ReportWindow ELSE DeleteWindow

(* "remaining = int(COOLDOWN - time_diff)", in whole seconds: int() drops  *)
(* the fraction of a positive number.                                      *)
Remaining(window, time_diff) == (window - time_diff) \div TicksPerSecond

(* The rate limiting check: a denied invocation replies and returns.       *)
Check(p) ==
  /\ pc[p] = "check"
  /\ LET l == loc[p]
         denied == CooldownActive(UsageOf(l.cmd), l.chat_id, l.current_time,
                                  WindowOf(l.cmd))
     IN IF denied
        THEN /\ pc' = [pc EXCEPT ![p] = "done"]
             /\ loc' = [loc EXCEPT
                  ![p].result = "cooldown",
                  ![p].time_diff = l.current_time - UsageOf(l.cmd)[l.chat_id],
                  ![p].remaining =
                     Remaining(WindowOf(l.cmd),
                               l.current_time - UsageOf(l.cmd)[l.chat_id])]
             /\ UNCHANGED allowed_at
        ELSE /\ pc' = [pc EXCEPT ![p] = "arm"]
             /\ allowed_at' = [allowed_at EXCEPT ![l.cmd][l.chat_id] = l.current_time]
             /\ UNCHANGED loc
  /\ UNCHANGED <<videos, report_messages, last_report_usage, last_delete_usage,
                 clock, next_message_id, redelivered, ever_recorded>>

(* "last_report_usage[chat_id] = current_time" / "last_delete_usage[...]"  *)
Arm(p) ==
  /\ pc[p] = "arm"
  /\ LET l == loc[p]
     IN IF l.cmd = "report"
        THEN /\ last_report_usage' =
                  [last_report_usage EXCEPT ![l.chat_id] = l.current_time]
             /\ pc' = [pc EXCEPT ![p] = "r_query"]
             /\ UNCHANGED last_delete_usage
        ELSE /\ last_delete_usage' =
                  [last_delete_usage EXCEPT ![l.chat_id] = l.current_time]
             /\ pc' = [pc EXCEPT ![p] = "d_auth"]
             /\ UNCHANGED last_report_usage
  /\ UNCHANGED <<videos, report_messages, clock, next_message_id, loc,
                 redelivered, allowed_at, ever_recorded>>

gate_check == \E p \in Procs : Check(p)

gate_arm == \E p \in Procs : Arm(p)

(* The handler returns: the thread ends and its locals are gone.           *)
Return(p) ==
  /\ pc[p] = "done"
  /\ pc' = [pc EXCEPT ![p] = "idle"]
  /\ loc' = [loc EXCEPT ![p] = NoLocals]
  /\ UNCHANGED <<videos, report_messages, last_report_usage, last_delete_usage,
                 clock, next_message_id, redelivered, allowed_at, ever_recorded>>

handler_return == \E p \in Procs : Return(p)

(* An exception reaches the handler's outer "except Exception": it is      *)
(* logged, the generic failure notice is attempted, the handler returns.   *)
(* cause records what raised: a sqlite statement or a messaging call.      *)
(* Neither except branch touches the cooldown dictionaries.                 *)
AbortAndDisarm(p, cause) ==
  /\ pc' = [pc EXCEPT ![p] = "done"]
  /\ loc' = [loc EXCEPT ![p].result = "error", ![p].cause = cause]
  /\ last_report_usage' =
       IF loc[p].cmd = "report"
       THEN [last_report_usage EXCEPT ![loc[p].chat_id] = NoEntry]
       ELSE last_report_usage
  /\ last_delete_usage' =
       IF loc[p].cmd = "delete"
       THEN [last_delete_usage EXCEPT ![loc[p].chat_id] = NoEntry]
       ELSE last_delete_usage

Abort(p, cause) ==
  /\ pc' = [pc EXCEPT ![p] = "done"]
  /\ loc' = [loc EXCEPT ![p].result = "error", ![p].cause = cause]
  /\ UNCHANGED <<last_report_usage, last_delete_usage>>

(* -------------------------- delete_duplicates -------------------------- *)
ElevatedStatusesWithMember == {"administrator", "creator", "member"}

ElevatedStatuses == {"administrator", "creator"}

MemberOutcomes == {"administrator", "creator", "member", "error"}

Target(r) == [uid |-> r.uid, mid |-> r.mid, chat |-> r.chat]

(* "member = await chat.get_member(user.id)": a status outside             *)
(* administrator/creator, or a failed lookup, replies and returns.         *)
delete_check_admin ==
  \E p \in Procs, outcome \in MemberOutcomes :
    /\ pc[p] = "d_auth"
    /\ IF outcome \in ElevatedStatuses
       THEN /\ pc' = [pc EXCEPT ![p] = "d_read_reports"]
            /\ loc' = [loc EXCEPT ![p].member = outcome]
       ELSE /\ pc' = [pc EXCEPT ![p] = "done"]
            /\ loc' = [loc EXCEPT ![p].member = outcome,
                                  ![p].result = "not_admin"]
    /\ UNCHANGED <<videos, report_messages, last_report_usage, last_delete_usage,
                   clock, next_message_id, redelivered, allowed_at, ever_recorded>>

(* "SELECT message_id FROM report_messages WHERE chat_id = ?"              *)
delete_read_reports ==
  \E p \in Procs :
    /\ pc[p] = "d_read_reports"
    /\ pc' = [pc EXCEPT ![p] = "d_delete_report"]
    /\ loc' = [loc EXCEPT ![p].report_msgs =
                 OrderByMid({r \in report_messages : r.chat = loc[p].chat_id})]
    /\ UNCHANGED <<videos, report_messages, last_report_usage, last_delete_usage,
                   clock, next_message_id, redelivered, allowed_at, ever_recorded>>

(* One turn of "for (message_id,) in report_messages": delete_message      *)
(* succeeds or raises; the exception is logged and the loop goes on.       *)
delete_report_message ==
  \E p \in Procs, ok \in BOOLEAN :
    /\ pc[p] = "d_delete_report"
    /\ loc[p].report_msgs # <<>>
    /\ loc' = [loc EXCEPT
                 ![p].report_msgs = Tail(@),
                 ![p].report_attempted = @ \cup {Head(loc[p].report_msgs)},
                 ![p].total_deleted = IF ok THEN @ + 1 ELSE @,
                 ![p].report_deleted = IF ok THEN @ + 1 ELSE @,
                 ![p].report_failed = IF ok THEN @ ELSE @ + 1]
    /\ UNCHANGED <<videos, report_messages, last_report_usage, last_delete_usage,
                   clock, next_message_id, pc, redelivered, allowed_at,
                   ever_recorded>>

(* "DELETE FROM report_messages WHERE chat_id = ?" and commit.             *)
delete_clear_reports ==
  \E p \in Procs :
    /\ pc[p] = "d_delete_report"
    /\ loc[p].report_msgs = <<>>
    /\ report_messages' = ClearChat(report_messages, loc[p].chat_id)
    /\ pc' = [pc EXCEPT ![p] = "d_query"]
    /\ UNCHANGED <<videos, last_report_usage, last_delete_usage, clock,
                   next_message_id, loc, redelivered, allowed_at, ever_recorded>>

(* The deletable-duplicates query: rows = cursor.fetchall().               *)
delete_query_duplicates ==
  \E p \in Procs :
    /\ pc[p] = "d_query"
    /\ pc' = [pc EXCEPT ![p] = "d_delete_duplicate"]
    /\ loc' = [loc EXCEPT
                 ![p].rows = DeletableDuplicates(videos),
                 ![p].queried_done = TRUE,
                 ![p].queried = {Target(r) : r \in Range(DeletableDuplicates(videos))}]
    /\ UNCHANGED <<videos, report_messages, last_report_usage, last_delete_usage,
                   clock, next_message_id, redelivered, allowed_at, ever_recorded>>

(* One turn of "for unique_id, message_id, video_chat_id in rows": the     *)
(* first row of a group is skipped, any other row gets a delete_message,   *)
(* which succeeds or raises (logged, the loop goes on).                    *)
delete_duplicate_message ==
  \E p \in Procs, ok \in BOOLEAN :
    /\ pc[p] = "d_delete_duplicate"
    /\ loc[p].rows # <<>>
    /\ LET l == loc[p]
           row == Head(l.rows)
       IN IF IsFirstOfGroup(row.uid, l.last_unique)
          THEN /\ ok
               /\ loc' = [loc EXCEPT ![p].rows = Tail(@),
                                     ![p].last_unique = row.uid,
                                     ![p].kept = @ \cup {Target(row)}]
          ELSE loc' = [loc EXCEPT
                 ![p].rows = Tail(@),
                 ![p].attempted = @ \cup {Target(row)},
                 ![p].failed = IF ok THEN @ ELSE @ \cup {Target(row)},
                 ![p].total_deleted = IF ok THEN @ + 1 ELSE @,
                 ![p].duplicates_deleted = IF ok THEN @ + 1 ELSE @,
                 ![p].videos_to_delete =
                    IF ok THEN Append(@, <<row.uid, row.mid>>) ELSE @]
    /\ UNCHANGED <<videos, report_messages, last_report_usage, last_delete_usage,
                   clock, next_message_id, pc, redelivered, allowed_at,
                   ever_recorded>>

(* A cleanup run that has taken its duplicates query and not yet returned. *)
PastQuery(q) == loc[q].cmd = "delete" /\ loc[q].queried_done

(* "if videos_to_delete: executemany DELETE ...; commit", then the log     *)
(* line and the reply that report the counters.                            *)
delete_remove_rows ==
  \E p \in Procs :
    /\ pc[p] = "d_delete_duplicate"
    /\ loc[p].rows = <<>>
    /\ LET l == loc[p]
           after == IF l.videos_to_delete = <<>> THEN videos
                    ELSE RemoveRows(videos, l.videos_to_delete)
           gone == videos \ after
       IN /\ videos' = after
          /\ pc' = [pc EXCEPT ![p] = "done"]
          /\ loc' = [q \in Procs |->
                IF q = p
                THEN [l EXCEPT !.result = "ok",
                               !.removed = {Target(r) : r \in gone}]
                ELSE IF PastQuery(q) /\ gone # {}
                     THEN [loc[q] EXCEPT !.interfered = TRUE]
                     ELSE loc[q]]
    /\ UNCHANGED <<report_messages, last_report_usage, last_delete_usage, clock,
                   next_message_id, redelivered, allowed_at, ever_recorded>>

(* ---------------------------- report_command --------------------------- *)
(* The duplicate-sets query: GROUP BY file_unique_id HAVING total_count >  *)
(* 1 ORDER BY total_count DESC.  sqlite leaves the order of groups with    *)
(* equal total_count open, and takes the bare column file_id from some row *)
(* of the group: every result the query may give is in this set.           *)
DuplicateSetLists(tbl) ==
  LET U == DuplicatedUids(tbl)
      n == Cardinality(U)
      orders == {f \in [1..n -> U] :
                   /\ \A a, b \in 1..n : a # b => f[a] # f[b]
                   /\ \A a, b \in 1..n :
                        a < b => CountFor(tbl, f[a]) >= CountFor(tbl, f[b])}
      reps == {g \in [U -> Fids] :
                 \A u \in U : \E r \in tbl : r.uid = u /\ r.fid = g[u]}
  IN {[k \in 1..n |-> [uid |-> f[k], fid |-> g[f[k]],
                        total_count |-> CountFor(tbl, f[k])]] :
        f \in orders, g \in reps}

(* "repeated[:MAX_REPORT_VIDEOS]": how many sets the loop visits.          *)
LimitOf(repeated) ==
  IF Len(repeated) < MAX_REPORT_VIDEOS THEN Len(repeated) ELSE MAX_REPORT_VIDEOS

(* A row of messages_to_store.                                             *)
Artifact(chat, mid, type) == [chat |-> chat, mid |-> mid, type |-> type]

(* "messages_to_store.append((chat_id, msg.message_id, type, ...))"        *)
NoteSentUnlessError(messages_to_store, chat, mid, type) ==
  IF type = "error" THEN messages_to_store
  ELSE Append(messages_to_store, Artifact(chat, mid, type))

NoteSent(messages_to_store, chat, mid, type) ==
  Append(messages_to_store, Artifact(chat, mid, type))

(* The query; "if not repeated: reply_text(No repeated videos found yet)", *)
(* a reply that stands outside any inner try.                              *)
report_query ==
  \E p \in Procs, ok \in BOOLEAN :
    /\ pc[p] = "r_query"
    /\ \E repeated \in DuplicateSetLists(videos) :
         IF repeated = <<>>
         THEN IF ok
              THEN /\ pc' = [pc EXCEPT ![p] = "done"]
                   /\ loc' = [loc EXCEPT ![p].result = "no_duplicates"]
                   /\ UNCHANGED <<last_report_usage, last_delete_usage>>
              ELSE Abort(p, "send")
         ELSE /\ ok
              /\ pc' = [pc EXCEPT ![p] = "r_header"]
              /\ loc' = [loc EXCEPT ![p].repeated = repeated]
              /\ UNCHANGED <<last_report_usage, last_delete_usage>>
    /\ UNCHANGED <<videos, report_messages, clock, next_message_id, redelivered,
                   allowed_at, ever_recorded>>

(* "report_msg = await update.message.reply_text(...Total repeated sets)"  *)
(* stands outside the loop's try: when it raises, the outer except runs.   *)
report_header ==
  \E p \in Procs, ok \in BOOLEAN :
    /\ pc[p] = "r_header"
    /\ IF ok
       THEN /\ pc' = [pc EXCEPT ![p] = "r_send"]
            /\ loc' = [loc EXCEPT
                 ![p].sets_reported = Len(loc[p].repeated),
                 ![p].i = 1,
                 ![p].videos_sent = 0,
                 ![p].messages_to_store =
                    NoteSent(<<>>, loc[p].chat_id, next_message_id, "header"),
                 ![p].log = Append(@, "header")]
            /\ next_message_id' = next_message_id + 1
            /\ UNCHANGED <<last_report_usage, last_delete_usage>>
       ELSE /\ Abort(p, "send")
            /\ UNCHANGED next_message_id
    /\ UNCHANGED <<videos, report_messages, clock, redelivered, allowed_at,
                   ever_recorded>>

(* One turn of the loop: send_video; on success the message is noted,      *)
(* videos_sent grows and the rate-limit sleep follows; on an exception the *)
(* except branch runs next.                                                *)
report_send_video ==
  \E p \in Procs, ok \in BOOLEAN :
    /\ pc[p] = "r_send"
    /\ loc[p].i <= LimitOf(loc[p].repeated)
    /\ IF ok
       THEN /\ loc' = [loc EXCEPT
                 ![p].messages_to_store =
                    NoteSent(@, loc[p].chat_id, next_message_id, "video"),
                 ![p].videos_sent = @ + 1,
                 ![p].i = @ + 1,
                 ![p].log = @ \o <<"video_sent", "delay">>]
            /\ next_message_id' = next_message_id + 1
            /\ UNCHANGED pc
       ELSE /\ loc' = [loc EXCEPT ![p].log = Append(@, "video_failed")]
            /\ pc' = [pc EXCEPT ![p] = "r_notice"]
            /\ UNCHANGED next_message_id
    /\ UNCHANGED <<videos, report_messages, last_report_usage, last_delete_usage,
                   clock, redelivered, allowed_at, ever_recorded>>

(* The except branch: reply_text(Could not send video); when that raises   *)
(* too it is logged and the loop goes on.                                  *)
report_error_notice ==
  \E p \in Procs, ok \in BOOLEAN :
    /\ pc[p] = "r_notice"
    /\ pc' = [pc EXCEPT ![p] = "r_send"]
    /\ IF ok
       THEN /\ loc' = [loc EXCEPT
                 ![p].messages_to_store =
                    NoteSent(@, loc[p].chat_id, next_message_id, "error"),
                 ![p].i = @ + 1,
                 ![p].log = Append(@, "notice_sent")]
            /\ next_message_id' = next_message_id + 1
       ELSE /\ loc' = [loc EXCEPT ![p].i = @ + 1,
                                  ![p].log = Append(@, "notice_failed")]
            /\ UNCHANGED next_message_id
    /\ UNCHANGED <<videos, report_messages, last_report_usage, last_delete_usage,
                   clock, redelivered, allowed_at, ever_recorded>>

(* "executemany INSERT INTO report_messages ...; commit" and the log line  *)
(* "Report completed: sent {videos_sent} videos".                          *)
report_store_messages ==
  \E p \in Procs :
    /\ pc[p] = "r_send"
    /\ loc[p].i > LimitOf(loc[p].repeated)
    /\ report_messages' = report_messages \cup Range(loc[p].messages_to_store)
    /\ pc' = [pc EXCEPT ![p] = "done"]
    /\ loc' = [loc EXCEPT ![p].result = "ok",
                          ![p].written = Range(loc[p].messages_to_store),
                          ![p].log = Append(@, "stored")]
    /\ UNCHANGED <<videos, last_report_usage, last_delete_usage, clock,
                   next_message_id, redelivered, allowed_at, ever_recorded>>

(* ---------------------------- stats_command ---------------------------- *)
(* stats_command has no cooldown gate: "chat_id = update.effective_chat.id"*)
(* and then the statistics queries.                                        *)
stats_command_start ==
  \E p \in Procs, chat \in Chats :
    /\ pc[p] = "idle"
    /\ \A q \in Procs : q < p => pc[q] # "idle"
    /\ loc' = [loc EXCEPT ![p] = [NoLocals EXCEPT !.cmd = "stats", !.chat_id = chat]]
    /\ pc' = [pc EXCEPT ![p] = "s_query"]
    /\ UNCHANGED <<videos, report_messages, last_report_usage, last_delete_usage,
                   clock, next_message_id, redelivered, allowed_at, ever_recorded>>

(* The six SELECTs inside "with get_db_connection()": they read only; when *)
(* one raises, the handler's except branch runs.                           *)
stats_query ==
  \E p \in Procs, ok \in BOOLEAN :
    /\ pc[p] = "s_query"
    /\ pc' = [pc EXCEPT ![p] = IF ok THEN "s_reply" ELSE "s_except"]
    /\ loc' = [loc EXCEPT ![p].cause = IF ok THEN @ ELSE "store"]
    /\ UNCHANGED <<videos, report_messages, last_report_usage, last_delete_usage,
                   clock, next_message_id, redelivered, allowed_at, ever_recorded>>

(* "await update.message.reply_text(stats_text, parse_mode='Markdown')"    *)
stats_reply ==
  \E p \in Procs, ok \in BOOLEAN :
    /\ pc[p] = "s_reply"
    /\ IF ok
       THEN /\ pc' = [pc EXCEPT ![p] = "done"]
            /\ loc' = [loc EXCEPT ![p].result = "ok"]
       ELSE /\ pc' = [pc EXCEPT ![p] = "s_except"]
            /\ loc' = [loc EXCEPT ![p].cause = "send"]
    /\ UNCHANGED <<videos, report_messages, last_report_usage, last_delete_usage,
                   clock, next_message_id, redelivered, allowed_at, ever_recorded>>

(* "except Exception as e: logger.error(...); await reply_text(Could not   *)
(* retrieve statistics)": the reply stands in the except branch with no    *)
(* try of its own, so when it raises the exception leaves stats_command.   *)
stats_error_reply ==
  \E p \in Procs, ok \in BOOLEAN :
    /\ pc[p] = "s_except"
    /\ pc' = [pc EXCEPT ![p] = IF ok THEN "done" ELSE "raised"]
    /\ loc' = [loc EXCEPT ![p].result = "error"]
    /\ UNCHANGED <<videos, report_messages, last_report_usage, last_delete_usage,
                   clock, next_message_id, redelivered, allowed_at, ever_recorded>>

(* The exception that left the handler goes to the dispatcher of the       *)
(* update; the thread (or the polling turn) of the update ends.            *)
handler_raise ==
  \E p \in Procs :
    /\ pc[p] = "raised"
    /\ pc' = [pc EXCEPT ![p] = "idle"]
    /\ loc' = [loc EXCEPT ![p] = NoLocals]
    /\ UNCHANGED <<videos, report_messages, last_report_usage, last_delete_usage,
                   clock, next_message_id, redelivered, allowed_at, ever_recorded>>

(* --------------------------- storage failures -------------------------- *)
(* The places where a handler runs sqlite statements: any of them may      *)
(* raise (connect, execute or commit), before anything is committed.       *)
AtStoreStatement(p) ==
  \/ pc[p] \in {"r_query", "d_read_reports", "d_query"}
  \/ pc[p] = "r_send" /\ loc[p].i > LimitOf(loc[p].repeated)
  \/ pc[p] = "d_delete_report" /\ loc[p].report_msgs = <<>>
  \/ pc[p] = "d_delete_duplicate" /\ loc[p].rows = <<>>
                                  /\ loc[p].videos_to_delete # <<>>

store_failure ==
  \E p \in Procs :
    /\ AtStoreStatement(p)
    /\ Abort(p, "store")
    /\ UNCHANGED <<videos, report_messages, clock, next_message_id, redelivered,
                   allowed_at, ever_recorded>>


(* ------------------------------ the system ----------------------------- *)
(* Webhook mode: webhook() starts a thread per update, so an update may    *)
(* arrive, and its handler run, while other handlers are under way.        *)
Next ==
  \/ Tick
  \/ video_handler
  \/ report_command_start
  \/ delete_duplicates_start
  \/ gate_check
  \/ gate_arm
  \/ report_query
  \/ report_header
  \/ report_send_video
  \/ report_error_notice
  \/ report_store_messages
  \/ delete_check_admin
  \/ delete_read_reports
  \/ delete_report_message
  \/ delete_clear_reports
  \/ delete_query_duplicates
  \/ delete_duplicate_message
  \/ delete_remove_rows
  \/ stats_command_start
  \/ stats_query
  \/ stats_reply
  \/ stats_error_reply
  \/ store_failure
  \/ handler_return
  \/ handler_raise

Spec == Init /\ [][Next]_vars

(* ----------------------- the system under workloads -------------------- *)
(* Each specification below is the system with the arrival of updates      *)
(* restricted; the steps of a handler once started are never restricted.   *)

(* Media events only, the clock running.                                   *)
NextRecord == Tick \/ video_handler

SpecRecord == Init /\ [][NextRecord]_vars

(* Webhook mode: /delete_duplicates commands in any chat, media events in  *)
(* one chat.                                                               *)
HomeChat == CHOOSE c \in Chats : \A d \in Chats : c <= d

video_handler_home ==
  \E unique_id \in Uids, file_id \in Fids, message_id \in Mids :
    VideoHandler(unique_id, file_id, HomeChat, message_id)

NextStore ==
  \/ video_handler_home
  \/ delete_duplicates_start
  \/ gate_check
  \/ gate_arm
  \/ delete_check_admin
  \/ delete_read_reports
  \/ delete_clear_reports
  \/ delete_query_duplicates
  \/ delete_duplicate_message
  \/ delete_remove_rows
  \/ store_failure
  \/ handler_return

SpecStore == Init /\ [][NextStore]_vars

(* The same, the commands that are under way together coming from         *)
(* different chats.                                                        *)
ChatFree(chat) == \A q \in Procs : pc[q] # "idle" => loc[q].chat_id # chat

delete_in_free_chat ==
  \E p \in Procs, chat \in Chats : ChatFree(chat) /\ Start(p, "delete", chat)

NextCleanup ==
  \/ video_handler_home
  \/ delete_in_free_chat
  \/ gate_check
  \/ gate_arm
  \/ delete_check_admin
  \/ delete_read_reports
  \/ delete_clear_reports
  \/ delete_query_duplicates
  \/ delete_duplicate_message
  \/ delete_remove_rows
  \/ store_failure
  \/ handler_return

SpecCleanup == Init /\ [][NextCleanup]_vars

(* Webhook mode: a /report and a /delete_duplicates command of one chat    *)
(* under way together; media events arrive while no command is under way.  *)
NoneRunning(cmd) == \A q \in Procs : loc[q].cmd # cmd

report_at_home ==
  \E p \in Procs :
    /\ NoneRunning("report") /\ next_message_id <= MaxSent
    /\ Start(p, "report", HomeChat)

delete_at_home ==
  \E p \in Procs : NoneRunning("delete") /\ Start(p, "delete", HomeChat)

quiet_video == (\A p \in Procs : pc[p] = "idle") /\ video_handler_home

NextArtifacts ==
  \/ quiet_video
  \/ report_at_home
  \/ delete_at_home
  \/ gate_check
  \/ gate_arm
  \/ report_query
  \/ report_header
  \/ report_send_video
  \/ report_error_notice
  \/ report_store_messages
  \/ delete_check_admin
  \/ delete_read_reports
  \/ delete_report_message
  \/ delete_clear_reports
  \/ delete_query_duplicates
  \/ delete_duplicate_message
  \/ delete_remove_rows
  \/ store_failure
  \/ handler_return

SpecArtifacts == Init /\ [][NextArtifacts]_vars

(* Polling mode (main() without WEBHOOK_URL): run_polling() takes the next *)
(* update when the handler of the previous one has returned.               *)
AllIdle == \A p \in Procs : pc[p] = "idle"

polling_video == AllIdle /\ video_handler_home

polling_report == AllIdle /\ report_command_start

polling_delete == AllIdle /\ delete_duplicates_start

NextPolling ==
  \/ polling_video
  \/ polling_report
  \/ polling_delete
  \/ gate_check
  \/ gate_arm
  \/ report_query
  \/ report_header
  \/ report_send_video
  \/ report_error_notice
  \/ report_store_messages
  \/ delete_check_admin
  \/ delete_read_reports
  \/ delete_report_message
  \/ delete_clear_reports
  \/ delete_query_duplicates
  \/ delete_duplicate_message
  \/ delete_remove_rows
  \/ store_failure
  \/ handler_return

SpecPolling == Init /\ [][NextPolling]_vars

(* Polling mode with the /stats command as well.                           *)
polling_stats == AllIdle /\ stats_command_start

NextHandlers ==
  \/ NextPolling
  \/ polling_stats
  \/ stats_query
  \/ stats_reply
  \/ stats_error_reply
  \/ handler_raise

SpecHandlers == Init /\ [][NextHandlers]_vars

(* Polling mode, the clock running, no media events: commands arrive one   *)
(* after another.                                                          *)
NextSerialGate ==
  \/ Tick
  \/ polling_report
  \/ polling_delete
  \/ gate_check
  \/ gate_arm
  \/ report_query
  \/ delete_check_admin
  \/ delete_read_reports
  \/ delete_clear_reports
  \/ delete_query_duplicates
  \/ delete_remove_rows
  \/ store_failure
  \/ handler_return

SpecSerialGate == Init /\ [][NextSerialGate]_vars

(* Webhook mode, the clock running, no media events: commands of one       *)
(* family sent to one chat.                                                *)
OneKind(cmd, chat) ==
  /\ \A q \in Procs : pc[q] # "idle" => loc[q].cmd = cmd /\ loc[q].chat_id = chat
  /\ \A c \in Commands, ch \in Chats :
       <<c, ch>> # <<cmd, chat>> => allowed_at[c][ch] = NoEntry

one_kind_start ==
  \E p \in Procs, cmd \in Commands, chat \in Chats :
    OneKind(cmd, chat) /\ Start(p, cmd, chat)

NextGate ==
  \/ Tick
  \/ one_kind_start
  \/ gate_check
  \/ gate_arm
  \/ report_query
  \/ delete_check_admin
  \/ delete_read_reports
  \/ delete_clear_reports
  \/ delete_query_duplicates
  \/ delete_remove_rows
  \/ store_failure
  \/ handler_return

SpecGate == Init /\ [][NextGate]_vars


(* ============================ the properties =========================== *)

(* ------------------------------- C1 ------------------------------------ *)
(* C1: between cleanups, after every record operation, each stored row's   *)
(* count equals the number of rows stored for that row's content key.      *)
C1_CountEqualsRowsOfKey ==
  \A r \in videos : r.count = CountFor(videos, r.uid)

(* Two keys are stored, one of them with several rows.                     *)
C1_SeveralRowsOfOneKey ==
  /\ \E r \in videos : r.count >= 2
  /\ \E r, o \in videos : r.uid # o.uid

(* ------------------------------- C2 ------------------------------------ *)
(* The occurrence of a content key with the smallest message id among the  *)
(* rows a cleanup run queried.                                             *)
SmallestOfKey(queried) ==
  {o \in queried : \A x \in queried : x.uid = o.uid => o.mid <= x.mid}

(* C2: a cleanup run never targets, for any content key, the occurrence    *)
(* with the smallest message id among the rows it queried, whether its     *)
(* delete attempts succeed or fail.                                        *)
C2_SmallestNeverTargeted ==
  \A p \in Procs :
    loc[p].cmd = "delete" =>
      /\ loc[p].attempted \cap SmallestOfKey(loc[p].queried) = {}
      /\ loc[p].attempted \subseteq loc[p].queried
      /\ pc[p] = "done" /\ loc[p].result = "ok" =>
           /\ loc[p].kept = SmallestOfKey(loc[p].queried)
           /\ loc[p].attempted = loc[p].queried \ loc[p].kept

(* A run over two duplicate sets has finished, one delete attempt failed   *)
(* and one succeeded.                                                      *)
C2_RunWithMixedOutcomes ==
  \E p \in Procs :
    /\ loc[p].cmd = "delete" /\ pc[p] = "done" /\ loc[p].result = "ok"
    /\ Cardinality(loc[p].kept) = 2
    /\ loc[p].failed # {}
    /\ loc[p].attempted \ loc[p].failed # {}

(* ------------------------------- C3 ------------------------------------ *)
(* C3: a content key that has had a row recorded keeps at least one row,   *)
(* whatever cleanup runs (overlapping or not) and records follow.          *)
C3_KeyNeverEmptied ==
  \A u \in ever_recorded : CountFor(videos, u) >= 1

(* A cleanup run has removed rows while another run, past its own          *)
(* duplicates query, has made delete attempts of its own.                  *)
C3_OverlappingRunsRemoved ==
  \E p, q \in Procs :
    /\ p # q
    /\ loc[p].cmd = "delete" /\ pc[p] = "done" /\ loc[p].removed # {}
    /\ PastQuery(q) /\ loc[q].attempted \ loc[q].failed # {}

(* ------------------------------- C4 ------------------------------------ *)
Succeeded(p) == loc[p].attempted \ loc[p].failed

StoredTargets == {Target(r) : r \in videos}

Completed(p) == loc[p].cmd = "delete" /\ pc[p] = "done" /\ loc[p].result = "ok"

ExactRemoval(p) ==
  /\ loc[p].removed = Succeeded(p)
  /\ {[uid |-> t.uid, mid |-> t.mid] : t \in loc[p].failed \cup loc[p].kept}
       \subseteq {[uid |-> r.uid, mid |-> r.mid] : r \in videos}
  /\ loc[p].duplicates_deleted = Cardinality(loc[p].removed)

(* C4 as stated: when a cleanup run completes, the rows it removed are     *)
(* exactly the non-kept occurrences whose delete attempt succeeded, every  *)
(* failed and every kept occurrence is still stored, and duplicates_deleted*)
(* equals the number of rows removed.                                      *)
C4_AsStated ==
  \A p \in Procs : Completed(p) => ExactRemoval(p)

(* C4: when a cleanup run completes, the rows it removed are among the     *)
(* occurrences whose delete attempt succeeded, it removed no kept and no   *)
(* failed occurrence, duplicates_deleted equals the number of successful   *)
(* attempts; and when no other cleanup run removed rows between this run's *)
(* duplicates query and its completion, the removal is exact as stated.    *)
C4_ExactUnlessInterfered ==
  \A p \in Procs :
    Completed(p) =>
      /\ loc[p].removed \subseteq Succeeded(p)
      /\ loc[p].removed \cap (loc[p].failed \cup loc[p].kept) = {}
      /\ loc[p].duplicates_deleted = Cardinality(Succeeded(p))
      /\ ~loc[p].interfered => ExactRemoval(p)

(* An undisturbed run over two duplicate sets has completed with one       *)
(* failed and one successful delete attempt.                               *)
C4_UndisturbedMixedRun ==
  \E p \in Procs :
    /\ Completed(p) /\ ~loc[p].interfered
    /\ loc[p].failed # {}
    /\ loc[p].removed # {}
    /\ StoredTargets \cap loc[p].failed # {}

(* ------------------------------- C5 ------------------------------------ *)
KeyConsistent(u) == \A r \in videos : r.uid = u => r.count = CountFor(videos, u)

(* C5: recording an occurrence whose (content key, message id) pair is     *)
(* already stored, in a store where that key's counts are those the first  *)
(* record left, changes nothing: the rows, and every row's file id, first  *)
(* seen time, chat and count are as before.                                *)
C5_RepeatedRecordChangesNothing ==
  [][\A u \in Uids, f \in Fids, c \in Chats, m \in Mids :
       ( /\ VideoHandler(u, f, c, m)
         /\ \E r \in videos : Key(r) = <<u, m>>
         /\ KeyConsistent(u) )
       => videos' = videos]_vars

(* The last media event repeated a stored pair, later than the rows of its *)
(* key were first seen, and the key has rows from two chats.               *)
C5_PairRecordedAgain ==
  /\ redelivered
  /\ \A r \in videos : r.first_seen < clock
  /\ \E r, o \in videos : r.uid = o.uid /\ r.mid # o.mid /\ r.chat # o.chat

(* ------------------------------- C6 ------------------------------------ *)
CountIn(log, entry) == Cardinality({k \in DOMAIN log : log[k] = entry})

OfType(artifacts, type) == Cardinality({a \in artifacts : a.type = type})

SendAttempts(p) == CountIn(loc[p].log, "video_sent") + CountIn(loc[p].log, "video_failed")

FoundSets(p) == loc[p].cmd = "report" /\ loc[p].repeated # <<>>

(* C6: in a report that found duplicate sets, a messaging failure never    *)
(* aborts the operation: it ends with the generic failure notice only when *)
(* a store statement failed, and otherwise every one of the top-limit sets *)
(* got a send attempt and the batch write was performed.                   *)
C6_SendFailureNeverAborts ==
  \A p \in Procs :
    FoundSets(p) /\ pc[p] = "done" =>
      /\ loc[p].result = "error" => loc[p].cause = "store"
      /\ loc[p].cause # "store" =>
           /\ SendAttempts(p) = LimitOf(loc[p].repeated)
           /\ CountIn(loc[p].log, "stored") = 1

(* ------------------------------- C7 ------------------------------------ *)
(* What one report invocation has noted for its batch write matches what   *)
(* its sends did so far.                                                   *)
NotedMatchesSends(p) ==
  LET noted == Range(loc[p].messages_to_store)
      log == loc[p].log
  IN /\ Cardinality(noted) = Len(loc[p].messages_to_store)
     /\ OfType(noted, "header") = CountIn(log, "header")
     /\ OfType(noted, "video") = CountIn(log, "video_sent")
     /\ OfType(noted, "error") = CountIn(log, "notice_sent")
     /\ loc[p].videos_sent = CountIn(log, "video_sent")

(* C7: for every pattern of media send outcomes in a report invocation     *)
(* that found duplicate sets and completed, the artifacts it persisted are *)
(* one header, one media artifact per successful media send and one error  *)
(* artifact per failed media send whose error notice was sent; videos_sent *)
(* is the number of successful media sends and the number of sets reported *)
(* is the number of duplicate sets found.                                  *)
C7_PersistedMatchesOutcomes ==
  \A p \in Procs :
    FoundSets(p) =>
      /\ NotedMatchesSends(p)
      /\ pc[p] = "done" /\ loc[p].result = "ok" =>
           /\ loc[p].written = Range(loc[p].messages_to_store)
           /\ loc[p].written \subseteq report_messages
           /\ OfType(loc[p].written, "header") = 1
           /\ SendAttempts(p) = LimitOf(loc[p].repeated)
           /\ loc[p].sets_reported = Len(loc[p].repeated)

(* A report over two sets has completed: one media send succeeded, the    *)
(* other failed and its error notice was sent.                            *)
C7_MixedOutcomesPersisted ==
  \E p \in Procs :
    /\ FoundSets(p) /\ pc[p] = "done" /\ loc[p].result = "ok"
    /\ Len(loc[p].repeated) = 2
    /\ OfType(loc[p].written, "video") = 1
    /\ OfType(loc[p].written, "error") = 1

(* ------------------------------- C8 ------------------------------------ *)
(* C8: the step of a cleanup run that follows its artifact delete attempts *)
(* leaves no report-artifact row of the invoking chat in the store,        *)
(* whatever the outcome of each attempt, and leaves the report-artifact    *)
(* rows of every other chat as they were.                                  *)
C8_ArtifactsOfChatCleared ==
  [][\A p \in Procs :
       (pc[p] = "d_delete_report" /\ pc'[p] = "d_query") =>
         /\ \A r \in report_messages' : r.chat # loc[p].chat_id
         /\ {r \in report_messages' : r.chat # loc[p].chat_id}
              = {r \in report_messages : r.chat # loc[p].chat_id}]_vars

(* A cleanup run is past the clearing step after a failed and a successful *)
(* artifact delete, and another chat has artifact rows.                    *)
C8_ClearedAfterMixedDeletes ==
  \E p \in Procs :
    /\ pc[p] = "d_query"
    /\ loc[p].report_failed >= 1 /\ loc[p].report_deleted >= 1
    /\ \A r \in report_messages : r.chat # loc[p].chat_id
    /\ report_messages # {}

(* ------------------------------- C9 ------------------------------------ *)
(* C9: for commands of one family arriving one after another for a chat,   *)
(* an invocation at time t is allowed if and only if the chat has no       *)
(* earlier allowed invocation of that family or t minus the time of the    *)
(* latest allowed one is at least the window; so two allowed invocations   *)
(* are never less than the window apart.                                   *)
C9_AllowedIffWindowPassed ==
  [][\A p \in Procs :
       (pc[p] = "check" /\ pc'[p] # "check") =>
         LET latest == allowed_at[loc[p].cmd][loc[p].chat_id]
             t == loc[p].current_time
         IN (pc'[p] = "arm") <=>
              (latest = NoEntry \/ t - latest >= WindowOf(loc[p].cmd))]_vars

(* An invocation is allowed exactly one window after the latest allowed    *)
(* invocation of its family for its chat.                                  *)
C9_AllowedAtWindowEnd ==
  \E p \in Procs :
    /\ pc[p] = "arm"
    /\ UsageOf(loc[p].cmd)[loc[p].chat_id] # NoEntry
    /\ loc[p].current_time - UsageOf(loc[p].cmd)[loc[p].chat_id] = WindowOf(loc[p].cmd)

(* ------------------------------- C10 ----------------------------------- *)
(* C10: of two invocations of one command family for one chat that run     *)
(* concurrently within one cooldown window, at most one passes the         *)
(* cooldown check.                                                         *)
C10_AtMostOnePasses ==
  \A p, q \in Procs :
    ( /\ p # q
      /\ pc[p] = "arm" /\ pc[q] \notin {"idle", "check"}
      /\ loc[p].cmd = loc[q].cmd /\ loc[p].chat_id = loc[q].chat_id
      /\ loc[p].current_time - loc[q].current_time < WindowOf(loc[p].cmd)
      /\ loc[q].current_time - loc[p].current_time < WindowOf(loc[p].cmd) )
    => loc[q].result = "cooldown"


(* ------------------------------- C11 ----------------------------------- *)
Denied(p) == pc[p] = "done" /\ loc[p].result = "cooldown"

(* C11: whenever a command is denied by the cooldown, the remaining wait   *)
(* it reports is the ceiling, in whole seconds, of the window minus the    *)
(* elapsed time, and so is a positive number of seconds.                   *)
C11_RemainingIsCeiling ==
  \A p \in Procs :
    Denied(p) =>
      /\ loc[p].time_diff < WindowOf(loc[p].cmd)
      /\ loc[p].remaining * TicksPerSecond >= WindowOf(loc[p].cmd) - loc[p].time_diff
      /\ (loc[p].remaining - 1) * TicksPerSecond < WindowOf(loc[p].cmd) - loc[p].time_diff
      /\ loc[p].remaining > 0


(* ------------------------------- C12 ----------------------------------- *)
NotElevated(l) ==
  l.cmd = "delete" /\ l.member \notin {"none", "administrator", "creator"}

(* C12: a cleanup invocation whose requester is not administrator or       *)
(* creator, or whose membership lookup fails, is denied: it ends there,    *)
(* having made no delete on the messaging surface, and no step of it has   *)
(* changed the occurrence rows or the report-artifact rows.                *)
C12_DeniedRunChangesNothing ==
  [][\A p \in Procs :
       /\ (loc[p].cmd = "delete" /\ pc[p] \in {"check", "arm", "d_auth"}) =>
            videos' = videos /\ report_messages' = report_messages
       /\ NotElevated(loc'[p]) =>
            /\ pc'[p] = "done" /\ loc'[p].result = "not_admin"
            /\ loc'[p].attempted = {} /\ loc'[p].total_deleted = 0
            /\ loc'[p].report_deleted = 0 /\ loc'[p].report_failed = 0
            /\ loc'[p].removed = {}]_vars

(* A cleanup run whose membership lookup failed has ended while there are  *)
(* duplicate occurrences and report artifacts of its chat to clean up.     *)
C12_DeniedWithWorkPending ==
  \E p \in Procs :
    /\ pc[p] = "done" /\ loc[p].member = "error"
    /\ DuplicatedUids(videos) # {}
    /\ \E r \in report_messages : r.chat = loc[p].chat_id


(* ------------------------------- C13 ----------------------------------- *)
(* C13: no failure of a store operation or of a messaging call leaves a    *)
(* handler as an exception: every handler run returns normally.            *)
C13_NoHandlerRaises ==
  \A p \in Procs : pc[p] # "raised"


(* ------------------------------- C14 ----------------------------------- *)
(* C14: the stored last-invocation time of a chat for a command family     *)
(* changes only in the arming step of an allowed invocation of that family *)
(* for that chat, which sets it to the invocation's time before the        *)
(* workflow runs; no denial and no later outcome of the workflow changes,  *)
(* reverts or clears it.                                                   *)
C14_ArmedOnlyWhenAllowed ==
  [][\A cmd \in Commands, chat \in Chats :
       LET before == UsageOf(cmd)[chat]
           after == IF cmd = "report" THEN last_report_usage'[chat]
                                      ELSE last_delete_usage'[chat]
       IN after # before =>
            \E p \in Procs :
              /\ pc[p] = "arm" /\ pc'[p] \in {"r_query", "d_auth"}
              /\ loc[p].cmd = cmd /\ loc[p].chat_id = chat
              /\ after = loc[p].current_time]_vars

(* An invocation armed at a later time than the previous one has ended in  *)
(* a failure and the entry still holds its time.                           *)
C14_StillArmedAfterFailure ==
  \E p \in Procs :
    /\ pc[p] = "done" /\ loc[p].result \in {"error", "not_admin"}
    /\ loc[p].current_time > 0
    /\ UsageOf(loc[p].cmd)[loc[p].chat_id] = loc[p].current_time


(* ------------------------------- C15 ----------------------------------- *)
(* C15: the list of duplicate sets a report works on is ordered by the     *)
(* total count descending and, among sets of equal total count, by content *)
(* key ascending, so the stored state determines the order.                *)
C15_TiesOrderedByKey ==
  \A p \in Procs :
    FoundSets(p) =>
      \A a, b \in DOMAIN loc[p].repeated :
        a < b =>
          \/ loc[p].repeated[a].total_count > loc[p].repeated[b].total_count
          \/ /\ loc[p].repeated[a].total_count = loc[p].repeated[b].total_count
             /\ loc[p].repeated[a].uid < loc[p].repeated[b].uid


(* ------------------------------- C16 ----------------------------------- *)
(* C16: after any sequence of record operations and cleanup runs, every    *)
(* stored row's count equals the number of stored rows of its content key, *)
(* also for the rows that remain after a cleanup run removed rows.         *)
C16_CountsConsistentAfterCleanup ==
  \A u \in Uids : KeyConsistent(u)


(* ------------------------------- C17 ----------------------------------- *)
IsAttempt(entry) == entry \in {"video_sent", "video_failed"}

(* C17: in a report the fixed delay occurs only between two successive     *)
(* media send attempts: none before the first attempt, none after the      *)
(* attempt for the last item, one between every two consecutive attempts,  *)
(* whether the earlier one succeeded or failed.                            *)
C17_DelayOnlyBetweenSends ==
  \A p \in Procs :
    (FoundSets(p) /\ pc[p] = "done" /\ loc[p].result = "ok") =>
      LET log == loc[p].log
      IN /\ \A k \in DOMAIN log :
              log[k] = "delay" =>
                /\ \E j \in DOMAIN log : j < k /\ IsAttempt(log[j])
                /\ \E j \in DOMAIN log : j > k /\ IsAttempt(log[j])
         /\ \A a, b \in DOMAIN log :
              (a < b /\ IsAttempt(log[a]) /\ IsAttempt(log[b])) =>
                \E k \in DOMAIN log : a < k /\ k < b /\ log[k] = "delay"
         /\ CountIn(log, "delay") + 1 = SendAttempts(p)


(* ------------------------------- C18 ----------------------------------- *)
(* C18: every occurrence delete a cleanup run attempts is addressed to the *)
(* chat the command was invoked in, the chat where the run has verified    *)
(* the requester's administrator or creator status.                        *)
C18_DeletesOnlyInInvokingChat ==
  \A p \in Procs :
    loc[p].cmd = "delete" =>
      \A t \in loc[p].attempted : t.chat = loc[p].chat_id


(* ------------------------------- C19 ----------------------------------- *)
(* C19: under any interleaving of a report and a cleanup run of one chat,  *)
(* every report-artifact row the cleanup run removes from the store is one *)
(* for which the run attempted a delete on the messaging surface.          *)
C19_ClearedArtifactsWereAttempted ==
  [][\A p \in Procs :
       (pc[p] = "d_delete_report" /\ pc'[p] = "d_query") =>
         \A r \in report_messages \ report_messages' :
           r.mid \in loc[p].report_attempted]_vars


(* ------------------------------- C20 ----------------------------------- *)
(* C20: a media event at a location (chat_id, message_id) where its        *)
(* content key has no stored occurrence yet always adds a row, so the      *)
(* total of the key is one higher than before; also when another chat has  *)
(* an occurrence of the key with the same message_id.                      *)
C20_NewLocationAddsRow ==
  [][\A u \in Uids, f \in Fids, c \in Chats, m \in Mids :
       ( /\ VideoHandler(u, f, c, m)
         /\ ~ \E r \in videos : r.uid = u /\ r.chat = c /\ r.mid = m )
       => /\ CountFor(videos', u) = CountFor(videos, u) + 1
          /\ \E r \in videos' : r.uid = u /\ r.chat = c /\ r.mid = m]_vars


=============================================================================
